---- MODULE Spec2Model ----
(***************************************************************************)
(* Model of the 404-container responder: one accepted connection is served *)
(* by the connection task of src/main.rs (extract, parse, decide, write,   *)
(* flush).  The request-line type of src/http.rs (RequestMessage, with its *)
(* per-field caps and its own response()) is modelled beside it as pure    *)
(* operators over the same RawLine.                                        *)
(*                                                                         *)
(* Bytes are integers 0..255, byte strings are sequences of bytes.         *)
(* REQUEST_CAP is BUFFER_LENGTH * 4096 in the source; the model keeps      *)
(* BUFFER_LENGTH = 16 and scales the factor 4096 down to CapChunks.        *)
(***************************************************************************)
EXTENDS Integers, Sequences, FiniteSets, TLC

\* ------------------------------------------------------------- constants

CR == 13
LF == 10
SEP == 32
BUFFER_LENGTH == 16

\* Stands for the factor 4096 of REQUEST_CAP (main.rs:16).
CapChunks == 2
\* Longest byte string enumerated exhaustively over Alphabet.
MaxLen == 3

REQUEST_CAP == BUFFER_LENGTH * CapChunks
CRLF == <<CR, LF>>

GET == <<71, 69, 84>>
HEAD == <<72, 69, 65, 68>>
POST == <<80, 79, 83, 84>>
PUT == <<80, 85, 84>>
DELETE == <<68, 69, 76, 69, 84, 69>>
OPTIONS == <<79, 80, 84, 73, 79, 78, 83>>
PATCH == <<80, 65, 84, 67, 72>>
TRACE == <<84, 82, 65, 67, 69>>
HTTP10 == <<72, 84, 84, 80, 47, 49, 46, 48>>
HTTP11 == <<72, 84, 84, 80, 47, 49, 46, 49>>
HTTP2 == <<72, 84, 84, 80, 47, 50>>
HEALTHZ == <<47, 104, 101, 97, 108, 116, 104, 122>>

\* main.rs
VERSIONS == {HTTP10, HTTP11, HTTP2}
METHODS == {GET, HEAD, POST, PUT, DELETE, OPTIONS, PATCH, TRACE}

\* http.rs
HttpVERSIONS == {HTTP10, HTTP11}
HttpMETHODS == {GET, HEAD, POST, PUT, DELETE, OPTIONS, PATCH, TRACE}
VERSION_CAP == 8
METHOD_CAP == 7
PATH_CAP == REQUEST_CAP - VERSION_CAP - METHOD_CAP - 2

DescOk == <<79, 75>>
DescBadRequest == <<66, 97, 100, 32, 82, 101, 113, 117, 101, 115, 116>>
DescNotFound == <<78, 111, 116, 32, 70, 111, 117, 110, 100>>
DescMethodNotAllowed ==
    <<77, 101, 116, 104, 111, 100, 32, 78, 111, 116, 32, 65, 108, 108, 111, 119, 101, 100>>
DescUriTooLong == <<85, 82, 73, 32, 84, 111, 111, 32, 76, 111, 110, 103>>
DescVersionNotSupported ==
    <<72, 84, 84, 80, 32, 86, 101, 114, 115, 105, 111, 110, 32, 78, 111, 116, 32,
      83, 117, 112, 112, 111, 114, 116, 101, 100>>
ConnectionClose ==
    <<67, 111, 110, 110, 101, 99, 116, 105, 111, 110, 58, 32, 99, 108, 111, 115, 101>>

\* ------------------------------------------------------- byte-string helpers

Min(a, b) == IF a < b THEN a ELSE b

Take(s, n) == SubSeq(s, 1, Min(n, Len(s)))

Drop(s, n) == SubSeq(s, Min(n, Len(s)) + 1, Len(s))

\* slice::is_ascii
IsAscii(s) == \A i \in 1..Len(s) : s[i] < 128

\* iter().position(|i| i == b): 0-based index of the first b, or -1 (None)
Position(s, b) ==
    IF \E i \in 1..Len(s) : s[i] = b
    THEN (CHOOSE i \in 1..Len(s) : s[i] = b /\ \A j \in 1..(i - 1) : s[j] # b) - 1
    ELSE -1

\* slice::starts_with
StartsWith(s, p) == Len(s) >= Len(p) /\ SubSeq(s, 1, Len(p)) = p

\* slice::splitn(n, |b| b == sep): at most n pieces, the last one holding the
\* rest of the slice; an empty slice gives one empty piece.
RECURSIVE SplitN(_, _, _)
SplitN(n, s, sep) ==
    LET pos == Position(s, sep)
    IN  IF n <= 1 \/ pos < 0
        THEN <<s>>
        ELSE <<Take(s, pos)>> \o SplitN(n - 1, Drop(s, pos + 1), sep)

\* u16::to_string: the decimal digits of n as bytes
RECURSIVE ToDigits(_)
ToDigits(n) ==
    IF n < 10 THEN <<48 + n>> ELSE ToDigits(n \div 10) \o <<48 + (n % 10)>>

\* ------------------------------------------------ main.rs: request message

\* HTTPRequestMessage::new
HTTPRequestMessageNew == [method |-> <<>>, path |-> <<>>, http |-> <<>>]

\* Mutant: split on every separator, keeping the first three pieces.
HTTPRequestMessageFrom_SplitAll(data) ==
    LET parts == SplitN(Len(data) + 1, data, SEP)
        part(i) == IF i <= Len(parts) THEN parts[i] ELSE <<>>
    IN  [method |-> part(1), path |-> part(2), http |-> part(3)]

\* impl From<&BytesVec> for HTTPRequestMessage: piece i of splitn(3, SEP) is
\* appended whole to field i (method, path, http).
HTTPRequestMessageFrom(data) ==
    LET parts == SplitN(3, data, SEP)
        part(i) == IF i <= Len(parts) THEN parts[i] ELSE <<>>
    IN  [method |-> HTTPRequestMessageNew.method \o part(1),
         path   |-> HTTPRequestMessageNew.path \o part(2),
         http   |-> HTTPRequestMessageNew.http \o part(3)]

\* HTTPRequestMessage::is_method_valid
is_method_valid(message) == message.method \in METHODS

\* HTTPRequestMessage::is_http_valid
is_http_valid(message) == message.http \in VERSIONS

\* ----------------------------------------------- main.rs: response message

\* HTTPResponseMessage::status applied to a message
Status(code, desc) == [http |-> HTTP11, code |-> code, desc |-> desc]

\* HTTPResponseMessage::new
HTTPResponseMessageNew == Status(404, DescNotFound)

\* HTTPResponseMessage::to_vec
to_vec(r) == r.http \o <<SEP>> \o ToDigits(r.code) \o <<SEP>> \o r.desc \o CRLF \o CRLF

\* Mutant: the ASCII check is left out.
ConnectionStatus_NoAsciiCheck(data) ==
    IF data # <<>>
    THEN LET message == HTTPRequestMessageFrom(data)
         IN  IF ~is_method_valid(message)
             THEN Status(405, DescMethodNotAllowed)
             ELSE IF message.path = <<>> \/ message.http = <<>>
             THEN Status(414, DescUriTooLong)
             ELSE IF ~is_http_valid(message)
             THEN Status(505, DescVersionNotSupported)
             ELSE IF message.path = HEALTHZ
             THEN Status(200, DescOk)
             ELSE HTTPResponseMessageNew
    ELSE Status(400, DescBadRequest)

\* Mutant: the empty-field check comes before the method check.
ConnectionStatus_EmptyFirst(data) ==
    IF data # <<>> /\ IsAscii(data)
    THEN LET message == HTTPRequestMessageFrom(data)
         IN  IF message.path = <<>> \/ message.http = <<>>
             THEN Status(414, DescUriTooLong)
             ELSE IF ~is_method_valid(message)
             THEN Status(405, DescMethodNotAllowed)
             ELSE IF ~is_http_valid(message)
             THEN Status(505, DescVersionNotSupported)
             ELSE IF message.path = HEALTHZ
             THEN Status(200, DescOk)
             ELSE HTTPResponseMessageNew
    ELSE Status(400, DescBadRequest)

\* Mutant: only an empty path is answered 414.
ConnectionStatus_PathOnly(data) ==
    IF data # <<>> /\ IsAscii(data)
    THEN LET message == HTTPRequestMessageFrom(data)
         IN  IF ~is_method_valid(message)
             THEN Status(405, DescMethodNotAllowed)
             ELSE IF message.path = <<>>
             THEN Status(414, DescUriTooLong)
             ELSE IF ~is_http_valid(message)
             THEN Status(505, DescVersionNotSupported)
             ELSE IF message.path = HEALTHZ
             THEN Status(200, DescOk)
             ELSE HTTPResponseMessageNew
    ELSE Status(400, DescBadRequest)

\* The status decision of the connection task, from the extracted data.
ConnectionStatus(data) ==
    IF data # <<>> /\ IsAscii(data)
    THEN LET message == HTTPRequestMessageFrom(data)
         IN  IF ~is_method_valid(message)
             THEN Status(405, DescMethodNotAllowed)
             ELSE IF message.path = <<>> \/ message.http = <<>>
             THEN Status(414, DescUriTooLong)
             ELSE IF ~is_http_valid(message)
             THEN Status(505, DescVersionNotSupported)
             ELSE IF message.path = HEALTHZ
             THEN Status(200, DescOk)
             ELSE HTTPResponseMessageNew
    ELSE Status(400, DescBadRequest)

\* ------------------------------------------------ http.rs: request message

\* RequestMessage::new
RequestMessageNew == [method |-> <<>>, path |-> <<>>, http |-> <<>>]

\* impl From<&[u8]> for RequestMessage: the value is cut at REQUEST_CAP, split
\* with splitn(3, SEP), and each piece is cut at its field's cap.
RequestMessageFrom(value) ==
    LET slice == IF Len(value) > REQUEST_CAP THEN Take(value, REQUEST_CAP) ELSE value
        parts == SplitN(3, slice, SEP)
        cut(src, cap) == IF Len(src) > cap THEN Take(src, cap) ELSE src
    IN  [method |-> cut(parts[1], METHOD_CAP),
         path   |-> IF Len(parts) >= 2 THEN cut(parts[2], PATH_CAP)
                    ELSE RequestMessageNew.path,
         http   |-> IF Len(parts) >= 3 THEN cut(parts[3], VERSION_CAP)
                    ELSE RequestMessageNew.http]

\* ResponseMessage::with_status
with_status(code, desc) ==
    [http |-> HTTP11, code |-> code, desc |-> desc, headers |-> <<ConnectionClose>>]

RESP_200 == with_status(200, DescOk)
RESP_400 == with_status(400, DescBadRequest)
RESP_404 == with_status(404, DescNotFound)
RESP_405 == with_status(405, DescMethodNotAllowed)
RESP_505 == with_status(505, DescVersionNotSupported)

\* RequestMessage::response
RequestMessageResponse(m) ==
    IF (m.method = <<>> /\ m.path = <<>> /\ m.http = <<>>)
       \/ ~(IsAscii(m.method) /\ IsAscii(m.path) /\ IsAscii(m.http))
       \/ ~StartsWith(m.path, <<47>>)
    THEN RESP_400
    ELSE IF m.method \notin HttpMETHODS
    THEN RESP_405
    ELSE IF m.http \notin HttpVERSIONS
    THEN RESP_505
    ELSE IF m.path = HEALTHZ
    THEN RESP_200
    ELSE RESP_404

\* ------------------------------------------------------ the peer's streams

OPTIONSBUTLONGER == <<79, 80, 84, 73, 79, 78, 83, 66, 85, 84, 76, 79, 78, 71, 69, 82>>
FOO == <<70, 79, 79>>
TEST == <<47, 116, 101, 115, 116>>
NOSLASH == <<116, 101, 115, 116>>
TOOLONGPATH == <<47, 116, 111, 111, 45, 108, 111, 110, 103, 45, 112, 97, 116, 104>>
HTTP11X == <<72, 84, 84, 80, 47, 49, 46, 49, 32, 120>>
HTTP110 == <<72, 84, 84, 80, 47, 49, 46, 49, 48>>
NonAscii == <<195>>

Filler(n) == [i \in 1..n |-> 97]

Alphabet == {SEP, 71, 47, CR, 195}

\* Every byte string over Alphabet of length at most MaxLen.
ShortStreams == UNION {[1..k -> Alphabet] : k \in 0..MaxLen}

MethodTokens == {<<>>, GET, OPTIONS, OPTIONSBUTLONGER, FOO}
PathTokens == {<<>>, <<47>>, HEALTHZ, TEST, NOSLASH, TOOLONGPATH}
VersionTokens == {<<>>, HTTP10, HTTP11, HTTP2, HTTP11X, HTTP110}

\* Request lines with zero, one or two separators.
Lines ==
    MethodTokens
    \cup {m \o <<SEP>> \o p : m \in MethodTokens, p \in PathTokens}
    \cup {m \o <<SEP>> \o p \o <<SEP>> \o v :
            m \in MethodTokens, p \in PathTokens, v \in VersionTokens}

\* Lines carrying a non-ASCII byte in the method, the path or the version.
NonAsciiLines ==
    {NonAscii \o GET \o <<SEP>> \o TEST \o <<SEP>> \o HTTP11,
     GET \o <<SEP>> \o TEST \o NonAscii \o <<SEP>> \o HTTP11,
     GET \o <<SEP>> \o HEALTHZ \o <<SEP>> \o HTTP11 \o NonAscii,
     GET \o <<SEP>> \o HEALTHZ \o <<SEP>> \o HTTP11 \o <<SEP>> \o NonAscii,
     FOO \o NonAscii}

\* What may follow the request line: nothing, the line end, the line end and
\* a header.
Tails == {<<>>, CRLF, CRLF \o Filler(BUFFER_LENGTH)}

\* Streams around the chunk size and around REQUEST_CAP, with and without a
\* terminator.
LongStreams ==
    {Filler(n) : n \in {BUFFER_LENGTH - 1, BUFFER_LENGTH, BUFFER_LENGTH + 1,
                        REQUEST_CAP - 1, REQUEST_CAP, REQUEST_CAP + 1,
                        REQUEST_CAP + BUFFER_LENGTH + 1}}
    \cup {Filler(n) \o CRLF \o Filler(2) :
            n \in {BUFFER_LENGTH - 1, BUFFER_LENGTH, BUFFER_LENGTH + 1,
                   REQUEST_CAP - 1, REQUEST_CAP, REQUEST_CAP + 1}}
    \cup {GET \o <<SEP, 47>> \o Filler(n) \o <<SEP>> \o HTTP11 \o CRLF :
            n \in {PATH_CAP - 1, PATH_CAP, REQUEST_CAP}}

Streams ==
    ShortStreams
    \cup {l \o t : l \in Lines \cup NonAsciiLines, t \in Tails}
    \cup LongStreams

\* ------------------------------------------------------------------ state

VARIABLES
    pc,         \* where the connection task is
    remaining,  \* bytes of the peer's stream no read has returned yet
    delivered,  \* bytes the reads have returned so far, in order
    buf,        \* extract's chunk buffer
    request,    \* extract's accumulator, then the task's data
    reads,      \* reads issued by extract
    message,    \* the parsed HTTPRequestMessage
    response,   \* the task's HTTPResponseMessage
    wire,       \* bytes written to the socket
    flushed,    \* whether flush was called
    writes,     \* write_all calls made by the task
    wres,       \* how write_all ended: "none", "ok", "wouldblock", "error"
    fres,       \* how flush ended: "none", "ok", "error"
    sock        \* the task's stream: "open", "shutdown" (Shutdown::Both), "closed" (dropped)

VARIABLES
    incoming,   \* what the listener's incoming() yields, in order: a stream or AcceptError
    nextConn,   \* the position in incoming the accept loop is waiting for
    listening,  \* whether the accept loop is still running
    tasks,      \* the connection tasks spawned so far, in spawn order
    signal,     \* the termination signal received (0: none)
    exited,     \* whether the process has exited
    exitCode    \* the code it exited with

conn == <<pc, remaining, delivered, buf, request, reads, message, response, wire, flushed,
          writes, wres, fres, sock>>

server == <<incoming, nextConn, listening, tasks, signal, exited, exitCode>>

vars == <<conn, server>>

\* No connection is served by the one-connection task.
ConnIdle ==
    /\ pc = "Done"
    /\ remaining = <<>>
    /\ delivered = <<>>
    /\ buf = [i \in 1..BUFFER_LENGTH |-> 0]
    /\ request = <<>>
    /\ reads = 0
    /\ message = HTTPRequestMessageNew
    /\ response = HTTPResponseMessageNew
    /\ wire = <<>>
    /\ flushed = FALSE
    /\ writes = 0
    /\ wres = "none"
    /\ fres = "none"
    /\ sock = "closed"

\* The accept loop and the signal task are left out of the picture.
ServerIdle ==
    /\ incoming = <<>>
    /\ nextConn = 1
    /\ listening = TRUE
    /\ tasks = <<>>
    /\ signal = 0
    /\ exited = FALSE
    /\ exitCode = 0

\* The task starts with a fresh response (404), then calls extract, which
\* starts with an empty request and a zeroed buffer.
Init ==
    /\ pc = "Reading"
    /\ remaining \in Streams
    /\ delivered = <<>>
    /\ buf = [i \in 1..BUFFER_LENGTH |-> 0]
    /\ request = <<>>
    /\ reads = 0
    /\ message = HTTPRequestMessageNew
    /\ response = HTTPResponseMessageNew
    /\ wire = <<>>
    /\ flushed = FALSE
    /\ writes = 0
    /\ wres = "none"
    /\ fres = "none"
    /\ sock = "open"
    /\ ServerIdle

\* Mutant: the chunk is not cut at the terminator.
ChunkSize_NoScan(b, size, len) ==
    IF len + size > REQUEST_CAP THEN REQUEST_CAP - len ELSE size

\* Mutant: the chunk is not cut at REQUEST_CAP.
ChunkSize_NoCap(b, size, len) ==
    LET pos == Position(b, CR)
    IN  IF pos >= 0 THEN pos ELSE size

\* The number of bytes one iteration of extract's loop appends, given the
\* buffer after the read, the size the read returned and the accumulated
\* length: the terminator is searched in the whole buffer.
ChunkSize(b, size, len) ==
    LET pos == Position(b, CR)
        s1 == IF pos >= 0 THEN pos ELSE size
    IN  IF len + s1 > REQUEST_CAP THEN REQUEST_CAP - len ELSE s1

\* Mutant: the loop breaks when the read was short, whatever was appended.
ExtractBreaks_OnShortRead(b, n, size) == n < BUFFER_LENGTH

\* Mutant: the loop breaks only at a terminator or at REQUEST_CAP.
ExtractBreaks_OnTerminator(b, n, size) == Position(b, CR) >= 0 \/ size < n

\* Whether the loop breaks after appending: `if size < BUFFER_LENGTH { break }`,
\* given the buffer, the size the read returned and the size appended.
ExtractBreaks(b, n, size) == size < BUFFER_LENGTH

\* One iteration of extract's loop whose read returns Ok(n), n > 0.
ReadChunk ==
    /\ pc = "Reading"
    /\ \E n \in 1..Min(BUFFER_LENGTH, Len(remaining)) :
         LET b == [i \in 1..BUFFER_LENGTH |-> IF i <= n THEN remaining[i] ELSE buf[i]]
             size == ChunkSize(b, n, Len(request))
         IN  /\ buf' = b
             /\ remaining' = Drop(remaining, n)
             /\ delivered' = delivered \o Take(remaining, n)
             /\ request' = request \o SubSeq(b, 1, size)
             /\ pc' = IF ExtractBreaks(b, n, size) THEN "Deciding" ELSE "Reading"
    /\ reads' = reads + 1
    /\ UNCHANGED <<message, response, wire, flushed, writes, wres, fres, sock>>
    /\ UNCHANGED server

\* The iteration whose read returns Ok(0): the loop breaks.
ReadZero ==
    /\ pc = "Reading"
    /\ pc' = "Deciding"
    /\ reads' = reads + 1
    /\ UNCHANGED <<remaining, delivered, buf, request, message, response, wire, flushed>>
    /\ UNCHANGED <<writes, wres, fres, sock>>
    /\ UNCHANGED server

\* Mutant: a read error ends the task.
ReadErr_Fatal ==
    /\ pc = "Reading"
    /\ pc' = "Done"
    /\ reads' = reads + 1
    /\ sock' = "closed"
    /\ UNCHANGED <<remaining, delivered, buf, request, message, response, wire, flushed>>
    /\ UNCHANGED <<writes, wres, fres>>
    /\ UNCHANGED server

\* The iteration whose read returns Err(_): the loop breaks.
ReadErr ==
    /\ pc = "Reading"
    /\ pc' = "Deciding"
    /\ reads' = reads + 1
    /\ UNCHANGED <<remaining, delivered, buf, request, message, response, wire, flushed>>
    /\ UNCHANGED <<writes, wres, fres, sock>>
    /\ UNCHANGED server

\* The task parses the data (when it is non-empty ASCII) and sets the status.
Decide ==
    /\ pc = "Deciding"
    /\ message' = IF request # <<>> /\ IsAscii(request)
                  THEN HTTPRequestMessageFrom(request)
                  ELSE message
    /\ response' = ConnectionStatus(request)
    /\ pc' = "Writing"
    /\ UNCHANGED <<remaining, delivered, buf, request, reads, wire, flushed>>
    /\ UNCHANGED <<writes, wres, fres, sock>>
    /\ UNCHANGED server

\* write_all succeeds: the whole response is on the wire.
WriteOk ==
    /\ pc = "Writing"
    /\ wire' = to_vec(response)
    /\ pc' = "Closing"
    /\ UNCHANGED <<remaining, delivered, buf, request, reads, message, response, flushed>>
    /\ writes' = writes + 1
    /\ wres' = "ok"
    /\ UNCHANGED <<fres, sock>>
    /\ UNCHANGED server

\* write_all fails with WouldBlock after k bytes: the task goes on to flush.
WriteWouldBlock ==
    /\ pc = "Writing"
    /\ \E k \in {0, Len(to_vec(response)) - 1} : wire' = Take(to_vec(response), k)
    /\ pc' = "Closing"
    /\ UNCHANGED <<remaining, delivered, buf, request, reads, message, response, flushed>>
    /\ writes' = writes + 1
    /\ wres' = "wouldblock"
    /\ UNCHANGED <<fres, sock>>
    /\ UNCHANGED server

\* write_all fails with another error after k bytes: the task returns, which
\* drops the stream.
WriteFail ==
    /\ pc = "Writing"
    /\ \E k \in {0, Len(to_vec(response)) - 1} : wire' = Take(to_vec(response), k)
    /\ pc' = "Done"
    /\ UNCHANGED <<remaining, delivered, buf, request, reads, message, response, flushed>>
    /\ writes' = writes + 1
    /\ wres' = "error"
    /\ sock' = "closed"
    /\ UNCHANGED fres
    /\ UNCHANGED server

\* Mutant: the task ends without flushing.
Flush_Skipped ==
    /\ pc = "Closing"
    /\ sock' = "closed"
    /\ pc' = "Done"
    /\ UNCHANGED <<remaining, delivered, buf, request, reads, message, response, wire>>
    /\ UNCHANGED <<flushed, fres, writes, wres>>
    /\ UNCHANGED server

\* flush, its result (Ok or Err) dropped by ok(); the task ends, which drops
\* the stream.
Flush ==
    /\ pc = "Closing"
    /\ flushed' = TRUE
    /\ \E r \in {"ok", "error"} : fres' = r
    /\ sock' = "closed"
    /\ pc' = "Done"
    /\ UNCHANGED <<remaining, delivered, buf, request, reads, message, response, wire>>
    /\ UNCHANGED <<writes, wres>>
    /\ UNCHANGED server

Next ==
    \/ ReadChunk
    \/ ReadZero
    \/ ReadErr
    \/ Decide
    \/ WriteOk
    \/ WriteWouldBlock
    \/ WriteFail
    \/ Flush

Spec == Init /\ [][Next]_vars

\* ------------------------------------------------- the process: main.rs

SIGHUP == 1
SIGINT == 2
SIGTERM == 15

\* Connections the listener yields before the model stops looking.
MaxConn == 2

\* The peers' streams of the process model.
ServerStreams == {GET \o <<SEP>> \o HEALTHZ \o <<SEP>> \o HTTP11 \o CRLF, FOO \o CRLF, <<>>}

\* What incoming.next() yields: Ok(stream) or Err(_).
Outcomes ==
    {[ok |-> TRUE, stream |-> st] : st \in ServerStreams}
    \cup {[ok |-> FALSE, stream |-> <<>>]}

\* The sizes a read of the process model returns.
ReadSizes(left) == {1, Min(BUFFER_LENGTH, Len(left))}

\* The task spawned for connection c: its response is new(), extract has not
\* read yet.
NewTask(c, st) ==
    [conn |-> c, pc |-> "Reading", remaining |-> st,
     buf |-> [i \in 1..BUFFER_LENGTH |-> 0], request |-> <<>>,
     response |-> HTTPResponseMessageNew, wire |-> <<>>, wres |-> "none",
     flushed |-> FALSE, sock |-> "open"]

\* One iteration of extract's loop in task t whose read returns Ok(n), n > 0.
TaskReadChunk(t, n) ==
    LET b == [i \in 1..BUFFER_LENGTH |-> IF i <= n THEN t.remaining[i] ELSE t.buf[i]]
        size == ChunkSize(b, n, Len(t.request))
    IN  [t EXCEPT !.buf = b,
                  !.remaining = Drop(t.remaining, n),
                  !.request = t.request \o SubSeq(b, 1, size),
                  !.pc = IF ExtractBreaks(b, n, size) THEN "Deciding" ELSE "Reading"]

\* The iteration whose read returns Ok(0) or Err(_).
TaskReadEnd(t) == [t EXCEPT !.pc = "Deciding"]

\* Mutant: the data decided on is a buffer shared by the tasks, holding what
\* the task spawned last has extracted.
TaskDecide_SharedData(t) ==
    [t EXCEPT !.response = ConnectionStatus(tasks[Len(tasks)].request), !.pc = "Writing"]

\* The status decision of task t.
TaskDecide(t) == [t EXCEPT !.response = ConnectionStatus(t.request), !.pc = "Writing"]

\* Mutant: the task flushes after every write failure.
TaskWrite_FlushAlways(t, res, k) ==
    [t EXCEPT !.wres = res,
              !.wire = IF res = "ok" THEN to_vec(t.response) ELSE Take(to_vec(t.response), k),
              !.pc = "Closing"]

\* write_all in task t ends with res after k bytes: on another error than
\* WouldBlock the task returns, which drops the stream.
TaskWrite(t, res, k) ==
    [t EXCEPT !.wres = res,
              !.wire = IF res = "ok" THEN to_vec(t.response) ELSE Take(to_vec(t.response), k),
              !.pc = IF res = "error" THEN "Done" ELSE "Closing",
              !.sock = IF res = "error" THEN "closed" ELSE "open"]

\* flush in task t, its result dropped; the task ends, which drops the stream.
TaskFlush(t) == [t EXCEPT !.flushed = TRUE, !.sock = "closed", !.pc = "Done"]

\* Mutant: the tasks go on after the process has exited.
Running_AfterExit == TRUE

\* The process is alive: std::process::exit has not been called.
Running == ~exited

ServerInit ==
    /\ ConnIdle
    /\ incoming \in [1..MaxConn -> Outcomes]
    /\ nextConn = 1
    /\ listening = TRUE
    /\ tasks = <<>>
    /\ signal = 0
    /\ exited = FALSE
    /\ exitCode = 0

\* The accept loop gets Ok(stream) and spawns the connection's task.
AcceptOk ==
    /\ Running
    /\ listening
    /\ nextConn <= Len(incoming)
    /\ incoming[nextConn].ok
    /\ tasks' = Append(tasks, NewTask(nextConn, incoming[nextConn].stream))
    /\ nextConn' = nextConn + 1
    /\ UNCHANGED <<incoming, listening, signal, exited, exitCode>>
    /\ UNCHANGED conn

\* Mutant: a failed accept ends the accept loop.
AcceptErr_Break ==
    /\ Running
    /\ listening
    /\ nextConn <= Len(incoming)
    /\ ~incoming[nextConn].ok
    /\ listening' = FALSE
    /\ UNCHANGED <<incoming, nextConn, tasks, signal, exited, exitCode>>
    /\ UNCHANGED conn

\* The accept loop gets Err(_): continue.
AcceptErr ==
    /\ Running
    /\ listening
    /\ nextConn <= Len(incoming)
    /\ ~incoming[nextConn].ok
    /\ nextConn' = nextConn + 1
    /\ UNCHANGED <<incoming, listening, tasks, signal, exited, exitCode>>
    /\ UNCHANGED conn

\* The signal task gets SIGHUP, SIGINT or SIGTERM and exits the process.
Signal ==
    /\ Running
    /\ \E sig \in {SIGHUP, SIGINT, SIGTERM} : signal' = sig
    /\ exited' = TRUE
    /\ exitCode' = 0
    /\ UNCHANGED <<incoming, nextConn, listening, tasks>>
    /\ UNCHANGED conn

\* Task i takes the step that leads to record t.
TaskStep(i, t) ==
    /\ tasks' = [tasks EXCEPT ![i] = t]
    /\ UNCHANGED <<incoming, nextConn, listening, signal, exited, exitCode>>
    /\ UNCHANGED conn

ServerReadChunk ==
    \E i \in DOMAIN tasks :
        /\ Running
        /\ tasks[i].pc = "Reading"
        /\ tasks[i].remaining # <<>>
        /\ \E n \in ReadSizes(tasks[i].remaining) : TaskStep(i, TaskReadChunk(tasks[i], n))

ServerReadEnd ==
    \E i \in DOMAIN tasks :
        /\ Running
        /\ tasks[i].pc = "Reading"
        /\ TaskStep(i, TaskReadEnd(tasks[i]))

ServerDecide ==
    \E i \in DOMAIN tasks :
        /\ Running
        /\ tasks[i].pc = "Deciding"
        /\ TaskStep(i, TaskDecide(tasks[i]))

ServerWrite ==
    \E i \in DOMAIN tasks :
        /\ Running
        /\ tasks[i].pc = "Writing"
        /\ \E res \in {"ok", "wouldblock", "error"} : TaskStep(i, TaskWrite(tasks[i], res, 0))

ServerFlush ==
    \E i \in DOMAIN tasks :
        /\ Running
        /\ tasks[i].pc = "Closing"
        /\ TaskStep(i, TaskFlush(tasks[i]))

ServerNext ==
    \/ AcceptOk
    \/ AcceptErr
    \/ Signal
    \/ ServerReadChunk
    \/ ServerReadEnd
    \/ ServerDecide
    \/ ServerWrite
    \/ ServerFlush

ServerSpec == ServerInit /\ [][ServerNext]_vars

\* ----------------------------------------------------------- properties

\* The task has decided its status.
Decided == pc \in {"Writing", "Closing", "Done"}

HasNonAscii(s) == \E i \in 1..Len(s) : s[i] >= 128

HasByte(s, b) == \E i \in 1..Len(s) : s[i] = b

CountByte(s, b) == Cardinality({i \in 1..Len(s) : s[i] = b})

\* The bytes of s before its first carriage return (all of s without one).
UntilCR(s) ==
    IF HasByte(s, CR)
    THEN SubSeq(s, 1, (CHOOSE i \in 1..Len(s) : s[i] = CR /\ ~HasByte(SubSeq(s, 1, i - 1), CR)) - 1)
    ELSE s

\* The request line had its three fields parsed by the task.
Parsed == Decided /\ request # <<>> /\ ~HasNonAscii(request)

\* C1: the decided status is 400 exactly when the raw line is empty or holds
\* a non-ASCII byte.
C1_BadRequestIffEmptyOrNonAscii ==
    Decided => (response.code = 400 <=> (Len(request) = 0 \/ HasNonAscii(request)))

C1_Witness ==
    /\ pc = "Done"
    /\ response.code = 400
    /\ Len(request) > 0
    /\ HasNonAscii(request)

\* C2: a non-empty ASCII line whose method is not an allowed one is answered
\* 405, whatever its path and version are.
C2_MethodFirst ==
    (Parsed /\ message.method \notin {GET, HEAD, POST, PUT, DELETE, OPTIONS, PATCH, TRACE})
        => response.code = 405

C2_Witness ==
    /\ pc = "Done"
    /\ Parsed
    /\ response.code = 405
    /\ message.method = FOO
    /\ message.path # <<>>
    /\ message.path[1] # 47
    /\ message.http = HTTP2

\* C3 as stated: with a valid method, an empty path, a path not starting with
\* '/' or an empty version is answered 414.
C3_Original ==
    (/\ Parsed
     /\ message.method \in METHODS
     /\ \/ message.path = <<>>
        \/ message.path[1] # 47
        \/ message.http = <<>>)
        => response.code = 414

\* C3 amended: with a valid method, an empty path or an empty version is
\* answered 414; "GET" and "GET /too-long-path" are; a non-empty path that
\* does not start with '/', before a non-empty version, is answered 404 or 505.
C3_EmptyPathOrVersion ==
    /\ (/\ Parsed
        /\ message.method \in METHODS
        /\ (message.path = <<>> \/ message.http = <<>>))
          => response.code = 414
    /\ (Decided /\ request \in {GET, GET \o <<SEP>> \o TOOLONGPATH})
          => response.code = 414
    /\ (/\ Parsed
        /\ message.method \in METHODS
        /\ message.path # <<>>
        /\ message.path[1] # 47
        /\ message.http # <<>>)
          => response.code \in {404, 505}

C3_Witness ==
    /\ pc = "Done"
    /\ request = GET \o <<SEP>> \o TOOLONGPATH
    /\ message.path = TOOLONGPATH
    /\ message.http = <<>>
    /\ response.code = 414

\* C4: with a valid method, a path starting with '/' and a non-empty version,
\* a version other than HTTP/1.0 and HTTP/1.1 is answered 505.
C4_UnsupportedVersion ==
    (/\ Parsed
     /\ message.method \in METHODS
     /\ message.path # <<>>
     /\ message.path[1] = 47
     /\ message.http # <<>>
     /\ message.http \notin {HTTP10, HTTP11})
        => response.code = 505

\* C5: 200 is decided only for a non-empty ASCII line with an allowed method,
\* version HTTP/1.0 or HTTP/1.1 and path /healthz; what passes the 400, 405,
\* 414 and 505 checks otherwise is answered 404.
C5_OkOnlyForHealthz ==
    /\ (Decided /\ response.code = 200)
          => /\ Parsed
             /\ message.method \in METHODS
             /\ message.http \in {HTTP10, HTTP11}
             /\ message.path = HEALTHZ
    /\ (Decided /\ response.code \notin {200, 400, 405, 414, 505})
          => response.code = 404

\* The peer's whole stream: what the reads returned, then what they did not.
Stream == delivered \o remaining

\* The extractor has returned.
Extracted == pc # "Reading"

\* C6 as stated: the RawLine is the stream up to its first carriage return,
\* or its first REQUEST_CAP bytes, whichever comes first.
C6_Original ==
    Extracted => request = Take(UntilCR(Stream), REQUEST_CAP)

\* C6 amended: the RawLine is the bytes the reads returned up to their first
\* carriage return, or the first REQUEST_CAP of them; the reads end with the
\* first one that returns fewer than BUFFER_LENGTH bytes, so what the stream
\* holds after it is not part of the RawLine.
C6_ReadBytesUntilCR ==
    /\ request = Take(UntilCR(delivered), REQUEST_CAP)
    /\ pc = "Reading" => Len(delivered) = reads * BUFFER_LENGTH
    /\ Extracted => /\ Len(delivered) >= (reads - 1) * BUFFER_LENGTH
                    /\ Len(delivered) <= reads * BUFFER_LENGTH

C6_Witness ==
    /\ pc = "Done"
    /\ Len(request) > BUFFER_LENGTH
    /\ ~HasByte(delivered, CR)
    /\ HasByte(remaining, CR)
    /\ request # Take(UntilCR(Stream), REQUEST_CAP)

\* C7: the RawLine never exceeds REQUEST_CAP and never holds a carriage
\* return; when the reads returned REQUEST_CAP bytes or more with no
\* terminator it is their first REQUEST_CAP bytes, and the task decides a
\* status for it.
C7_BoundedNoTerminator ==
    /\ Len(request) <= REQUEST_CAP
    /\ ~HasByte(request, CR)
    /\ (Extracted /\ Len(delivered) >= REQUEST_CAP /\ ~HasByte(delivered, CR))
          => request = SubSeq(delivered, 1, REQUEST_CAP)
    /\ (pc = "Done" /\ Len(request) = REQUEST_CAP)
          => response.code \in {200, 400, 404, 405, 414, 505}

C7_Witness ==
    /\ pc = "Done"
    /\ Len(delivered) > REQUEST_CAP
    /\ ~HasByte(delivered, CR)
    /\ Len(request) = REQUEST_CAP
    /\ wire = to_vec(response)

C9_FieldsWithinCaps ==
    Parsed =>
        LET parts == SplitN(3, request, SEP)
        IN  /\ Len(message.method) <= METHOD_CAP
            /\ Len(message.path) <= PATH_CAP
            /\ Len(message.http) <= VERSION_CAP
            /\ message.method = Take(parts[1], METHOD_CAP)
            /\ Len(parts) >= 2 => message.path = Take(parts[2], PATH_CAP)
            /\ Len(parts) >= 3 => message.http = Take(parts[3], VERSION_CAP)

\* C10: "OPTIONSBUTLONGER /test HTTP/1.1" is parsed to OPTIONS, /test,
\* HTTP/1.1 and answered 404.
C10_LongerMethod ==
    (Decided /\ request = OPTIONSBUTLONGER \o <<SEP>> \o TEST \o <<SEP>> \o HTTP11)
        => /\ message = [method |-> OPTIONS, path |-> TEST, http |-> HTTP11]
           /\ response.code = 404

\* http.rs: the fields of RequestMessage::from stay within their caps, for
\* every value the accumulator takes.
RequestMessageWithinCaps ==
    LET m == RequestMessageFrom(request)
        parts == SplitN(3, request, SEP)
    IN  /\ Len(m.method) <= METHOD_CAP
        /\ Len(m.path) <= PATH_CAP
        /\ Len(m.http) <= VERSION_CAP
        /\ m.method = Take(parts[1], METHOD_CAP)

\* ------------------------------------------- properties: write and close

\* C11: a response written whole is "HTTP/1.1 <code> <reason>\r\n", then the
\* header line "Connection: close\r\n", then "\r\n", and nothing else.
C11_WireForm ==
    wres = "ok" =>
        wire = HTTP11 \o <<SEP>> \o ToDigits(response.code) \o <<SEP>> \o response.desc
               \o CRLF \o ConnectionClose \o CRLF \o CRLF

\* A step of the task from one state to the next one in order; a write that
\* fails otherwise ends the task from Writing.
InOrder(a, b) ==
    \/ a = "Reading" /\ b = "Deciding"
    \/ a = "Deciding" /\ b = "Writing"
    \/ a = "Writing" /\ b \in {"Closing", "Done"}
    \/ a = "Closing" /\ b = "Done"

\* C12: the task goes Reading, Deciding, Writing, Closing in that order and
\* never back; reads are issued in Reading only; every end of Reading (a
\* short read, a zero-byte read, a read error) leads to Deciding; the task
\* writes once, with status 400 for an empty RawLine.
C12_StatesInOrder ==
    /\ [](/\ pc \in {"Reading", "Deciding", "Writing"} => writes = 0
          /\ pc = "Closing" => writes = 1
          /\ (pc = "Done" /\ sock = "closed") => writes = 1
          /\ (pc = "Writing" /\ request = <<>>) => response.code = 400)
    /\ [][/\ pc' # pc => InOrder(pc, pc')
          /\ reads' # reads => pc = "Reading"
          /\ writes' # writes => (pc = "Writing" /\ writes = 0)]_vars

C12_Witness ==
    /\ pc = "Done"
    /\ reads = 1
    /\ delivered = <<>>
    /\ request = <<>>
    /\ writes = 1
    /\ wres = "ok"
    /\ response.code = 400
    /\ flushed

\* C14 as stated: a task that flushed has shut its stream down in both
\* directions.
C14_Original ==
    (pc = "Done" /\ flushed) => sock = "shutdown"

\* C14 amended: a task that reaches Closing flushes and then ends, whether
\* the flush succeeded or failed; the end of the task drops the stream, which
\* is never shut down by a call of its own.
C14_FlushThenDrop ==
    /\ pc = "Closing" => (sock = "open" /\ ~flushed)
    /\ (pc = "Done" /\ wres \in {"ok", "wouldblock"})
          => (flushed /\ fres \in {"ok", "error"} /\ sock = "closed")
    /\ sock # "shutdown"

C14_Witness ==
    /\ pc = "Done"
    /\ wres = "ok"
    /\ flushed
    /\ fres = "error"
    /\ sock = "closed"

\* ---------------------------------------------- properties: extract's loop

\* The bytes the read of this step returned.
ChunkRead == SubSeq(delivered', Len(delivered) + 1, Len(delivered'))

\* This step is an iteration of extract's loop.
IsRead == pc = "Reading" /\ reads' = reads + 1

\* Once extract has returned, nothing is read or accumulated any more.
NoReadAfterReturn ==
    Extracted =>
        /\ reads' = reads
        /\ request' = request
        /\ remaining' = remaining
        /\ delivered' = delivered
        /\ pc' # "Reading"

\* C18 as stated: a read shorter than the chunk size ends extraction, and the
\* RawLine is what was accumulated plus that read's bytes up to its
\* terminator; no read follows.
C18_Original ==
    [][/\ (IsRead /\ Len(ChunkRead) < BUFFER_LENGTH)
            => (pc' = "Deciding" /\ request' = request \o UntilCR(ChunkRead))
       /\ NoReadAfterReturn]_vars

\* C18 amended: the same, with the RawLine cut at REQUEST_CAP.
C18_StopsAtShortRead ==
    [][/\ (IsRead /\ Len(ChunkRead) < BUFFER_LENGTH)
            => /\ pc' = "Deciding"
               /\ request' = Take(request \o UntilCR(ChunkRead), REQUEST_CAP)
       /\ NoReadAfterReturn]_vars

C18_Witness ==
    /\ pc = "Done"
    /\ reads = 2
    /\ Len(delivered) > BUFFER_LENGTH
    /\ Len(delivered) < 2 * BUFFER_LENGTH
    /\ request = delivered
    /\ remaining # <<>>

\* C19: extract issues at most REQUEST_CAP / 16 + 1 reads: while it loops,
\* every read appended a whole chunk, and an iteration that starts with
\* REQUEST_CAP bytes appends nothing and stops.
C19_ReadsBounded ==
    /\ [](/\ reads <= (REQUEST_CAP \div BUFFER_LENGTH) + 1
          /\ pc = "Reading" => /\ Len(request) = reads * BUFFER_LENGTH
                               /\ Len(request) <= REQUEST_CAP)
    /\ [][(IsRead /\ Len(request) = REQUEST_CAP)
            => (request' = request /\ pc' = "Deciding")]_vars

C19_Witness ==
    /\ pc = "Done"
    /\ reads = (REQUEST_CAP \div BUFFER_LENGTH) + 1
    /\ Len(request) = REQUEST_CAP
    /\ Len(delivered) > REQUEST_CAP

\* C20: whenever the scan of the whole buffer finds a carriage return, it is
\* among the bytes just read, and no more bytes are appended than were read.
C20_NoStaleTerminator ==
    [][(IsRead /\ Len(ChunkRead) > 0)
          => /\ Position(buf', CR) >= 0 => Position(buf', CR) < Len(ChunkRead)
             /\ Len(request') - Len(request) <= Len(ChunkRead)]_vars

\* A short second read found its terminator in front of bytes left over from
\* the first read.
C20_Witness ==
    /\ pc = "Deciding"
    /\ reads = 2
    /\ Len(delivered) < 2 * BUFFER_LENGTH - 1
    /\ HasByte(delivered, CR)
    /\ buf[BUFFER_LENGTH] = delivered[BUFFER_LENGTH]
    /\ buf[BUFFER_LENGTH] # 0

\* ------------------------------------------------ properties: the process

\* Task i's write_all fails in this step.
WriteFailsIn(i) ==
    /\ i \in DOMAIN tasks
    /\ tasks[i].wres = "none"
    /\ tasks'[i].wres \in {"wouldblock", "error"}

\* C13: after WouldBlock the task goes on to flush; after another write
\* failure it ends at once and never flushes; a failing write changes
\* nothing but its own task: the other tasks, the accept loop and the
\* process stay as they are.
C13_WriteFailure ==
    /\ [](\A i \in DOMAIN tasks :
            /\ tasks[i].wres = "wouldblock" => tasks[i].pc \in {"Closing", "Done"}
            /\ (tasks[i].wres = "wouldblock" /\ tasks[i].pc = "Done") => tasks[i].flushed
            /\ tasks[i].wres = "error" => (tasks[i].pc = "Done" /\ ~tasks[i].flushed))
    /\ [][\A i \in DOMAIN tasks :
            WriteFailsIn(i) =>
                /\ DOMAIN tasks' = DOMAIN tasks
                /\ \A j \in DOMAIN tasks : j # i => tasks'[j] = tasks[j]
                /\ UNCHANGED <<incoming, nextConn, listening, signal, exited, exitCode>>]_vars

\* One task failed to write and never flushed, another failed with WouldBlock
\* and flushed, and the process runs.
C13_Witness ==
    /\ ~exited
    /\ listening
    /\ Len(tasks) = 2
    /\ tasks[1].wres = "error"
    /\ tasks[1].pc = "Done"
    /\ ~tasks[1].flushed
    /\ tasks[2].wres = "wouldblock"
    /\ tasks[2].pc = "Done"
    /\ tasks[2].flushed

\* The positions of incoming the accept loop has gone past.
Passed == 1..(nextConn - 1)

\* C15: the accept loop never ends on a failed accept: the tasks spawned are,
\* in order, those of the successful accepts gone past, none for a failed one.
C15_AcceptSkipsFailures ==
    /\ listening
    /\ Len(tasks) = Cardinality({k \in Passed : incoming[k].ok})
    /\ \A i \in DOMAIN tasks :
          /\ tasks[i].conn \in Passed
          /\ incoming[tasks[i].conn].ok
          /\ \A j \in DOMAIN tasks : i < j => tasks[i].conn < tasks[j].conn
    /\ \A k \in Passed : incoming[k].ok => \E i \in DOMAIN tasks : tasks[i].conn = k

\* A failed accept, then a successful one, which got its task.
C15_Witness ==
    /\ nextConn > 2
    /\ ~incoming[1].ok
    /\ incoming[2].ok
    /\ Len(tasks) = 1
    /\ tasks[1].conn = 2
    /\ tasks[1].pc = "Done"
    /\ tasks[1].wres = "ok"

\* C16: the first termination signal exits the process with code 0 at once;
\* after the exit no task and no accept takes a step.
C16_SignalExits ==
    /\ [](/\ exited <=> signal \in {SIGHUP, SIGINT, SIGTERM}
          /\ exited => exitCode = 0)
    /\ [][/\ signal' # signal => (signal = 0 /\ exited' /\ tasks' = tasks)
          /\ exited => UNCHANGED <<tasks, nextConn, listening, signal, exited, exitCode>>]_vars

\* The process exited with a task in each of Reading and Writing, nothing
\* written for either.
C16_Witness ==
    /\ exited
    /\ exitCode = 0
    /\ Len(tasks) = 2
    /\ tasks[1].pc = "Writing"
    /\ tasks[2].pc = "Reading"
    /\ tasks[1].wire = <<>>
    /\ tasks[2].wire = <<>>

\* Task i has decided its status.
TaskDecided(i) == tasks[i].pc \in {"Writing", "Closing", "Done"}

====
